---- MODULE Spec2Model ----
(***************************************************************************)
(* Record locking of the RealSync CRM: the record_locks table and the      *)
(* PL/pgSQL functions acquire_lock, release_lock, check_lock and           *)
(* cleanup_expired_locks (migration "Concurrency & Presence System"), and  *)
(* the client wrappers acquireLock / releaseLock / checkLock of            *)
(* services/presence.ts.                                                   *)
(*                                                                         *)
(* Every RPC is one PostgreSQL transaction under READ COMMITTED.  A        *)
(* function that runs one SQL statement is one atomic step.  acquire_lock  *)
(* runs a SELECT and then, in three of its four branches, an UPDATE or an  *)
(* INSERT: those are two steps, and the statements of other transactions   *)
(* may commit in between.  NOW() is the start time of the transaction, so  *)
(* it is read once per call.                                               *)
(*                                                                         *)
(* Presence: the user_presence table with update_presence, get_viewers     *)
(* and cleanup_stale_presence, each of which runs one statement on the     *)
(* table (update_presence reads profiles first, which the model holds      *)
(* fixed), and the record page built by useDetailView from usePresence     *)
(* and useEditMode.                                                        *)
(***************************************************************************)
EXTENDS Integers, FiniteSets, Sequences, TLC

\* ---------------------------------------------------------------- bounds
MaxTime == 2
MaxDuration == 2

\* ---------------------------------------------------------------- domain
NULL == "NULL"

\* The value of a row variable after a SELECT ... INTO that found no row.
NoRow == [found |-> FALSE]

\* Authenticated principals (rows of profiles).  Every client session of
\* the model carries the JWT of one of them.
Principals == {"A", "B", "C"}
Sessions == Principals

\* (entity_type, entity_id) pairs.
Entities == {"company:42"}

\* p_lock_duration_minutes is any INTEGER: the function does not validate it.
Durations == 0..MaxDuration

\* auth.uid(): the principal of the session's JWT, NULL without one.
auth_uid(s) == IF s \in Principals THEN s ELSE NULL

\* SELECT full_name FROM profiles WHERE id = v_user_id
full_name(p) ==
  CASE p = "A" -> "Alice"
    [] p = "B" -> "Bob"
    [] p = "C" -> "Carol"
    [] OTHER -> NULL

VARIABLES
  now,           \* the database clock, in minutes
  record_locks,  \* the rows of table record_locks
  call,          \* session -> its acquire_lock call in flight, or Idle
  last           \* the response of the latest step, NoResult when the step
                 \* returned nothing to a caller

\* State of the page that edits a record (useRecordLock, useEditMode).
VARIABLES
  mounted,            \* the component is mounted
  lockInfo,           \* useRecordLock: lockInfo, NullInfo for null
  isEditing,          \* useEditMode: isEditing
  editData,           \* useEditMode: editData
  extendIntervalRef,  \* {} without an interval, else {minutes since it was set}
  pending,            \* the calls of the page that are in flight: acquire is
                      \* "startEdit" or "extend" after the code that made the
                      \* acquireLock call, release is "save" for the release that
                      \* saveEdit awaits and "cancel" or "unmount" for the others,
                      \* save is true while onSave runs
  out,                \* what the handler step just taken returned or did
  sinceAcquire,       \* minutes in edit mode with the lock since the page last
                      \* called acquireLock
  leftBy              \* how the page last left edit mode on the user's request:
                      \* "cancel", "save" (onSave succeeded), or "none" when it
                      \* has not since startEdit last succeeded

\* State of the versioned row and of the pages that edit it.
VARIABLES
  companies,     \* the row of companies
  record,        \* editor -> the row its page last fetched, or NoRow
  vout           \* the outcome of the latest fetch or update

\* State of the presence table, and of the presence hook of the page that
\* shows a record (usePresence, useDetailView).
VARIABLES
  user_presence, \* the rows of table user_presence
  statusRef,     \* usePresence: statusRef.current, the status every
                 \* sendPresence reports
  idleTimeout,   \* {} without a pending timeout, else {minutes since it was set}
  quiet          \* minutes since the latest user input event or, when that is
                 \* later, since the page left edit mode

serverVars == <<now, record_locks, call, last>>

vars ==
  <<now, record_locks, call, last,
    mounted, lockInfo, isEditing, editData, extendIntervalRef, pending, out,
    sinceAcquire, leftBy,
    companies, record, vout,
    user_presence, statusRef, idleTimeout, quiet>>

Idle == [pc |-> "idle"]
NoResult == [op |-> "none"]

Has(r, k) == k \in DOMAIN r
Flag(r, k) == Has(r, k) /\ r[k] = TRUE

\* ------------------------------------------------------------ the table
\* ... WHERE entity_type = p_entity_type AND entity_id = p_entity_id
RowsOf(locks, e) == {r \in locks : r.entity = e}

\* SELECT * INTO v FROM ...: one of the rows found, NoRow when none is.
SelectInto(rows) == IF rows = {} THEN NoRow ELSE CHOOSE r \in rows : TRUE

\* Mutant: the table has no unique constraint.
UniqueViolation_Dropped(locks, e) == FALSE

\* UNIQUE(entity_type, entity_id): an INSERT for e fails when a committed
\* row for e exists.
UniqueViolation(locks, e) == RowsOf(locks, e) # {}

\* The row ids some row or some call in flight still refers to.
IdsInUse ==
  {r.id : r \in record_locks}
    \cup {call[s].v_existing_lock.id :
            s \in {x \in Sessions : call[x] # Idle /\ call[x].v_existing_lock # NoRow}}

\* id UUID DEFAULT uuid_generate_v4(): an id that differs from every id in
\* use.  Ids are only compared for equality, so the least unused number
\* stands for a fresh UUID.
uuid_generate_v4 == CHOOSE i \in 1..(Cardinality(IdsInUse) + 1) : i \notin IdsInUse

\* ------------------------------------------------------ client wrappers
Ok(data) == [data |-> data, error |-> NULL]
Err(msg) == [data |-> NULL, error |-> msg]

\* services/presence.ts acquireLock: an RPC error becomes a failed result
\* that carries only the message.
acquireLock(rpc) ==
  IF rpc.error # NULL
    THEN [success |-> FALSE, error |-> rpc.error]
    ELSE rpc.data

\* services/presence.ts releaseLock: an RPC error becomes false.
releaseLock(rpc) ==
  IF rpc.error # NULL THEN FALSE ELSE rpc.data

\* services/presence.ts checkLock: an RPC error becomes "not locked".
checkLock(rpc) ==
  IF rpc.error # NULL THEN [locked |-> FALSE] ELSE rpc.data

\* ------------------------------------------------------------ acquire_lock
\* What the call keeps of the row it read: the UPDATE uses the id, and the
\* holder is kept to tell whose lock the call decided on.
Snapshot(row) ==
  IF row = NoRow THEN NoRow ELSE [id |-> row.id, locked_by |-> row.locked_by]

\* What a session's acquire call returned, with the row its SELECT had read.
AcquireReturn(s, e, v_existing_lock, result) ==
  [op |-> "acquire", session |-> s, entity |-> e,
   v_existing_lock |-> Snapshot(v_existing_lock), result |-> result]

\* Mutant: a lock counts as expired already at expires_at = NOW().
AcquireBranch_TakeOverAtExpiry(v_user_id, v_existing_lock, t) ==
  IF v_existing_lock # NoRow
    THEN IF v_existing_lock.locked_by = v_user_id THEN "extend"
         ELSE IF v_existing_lock.expires_at <= t THEN "take_over"
         ELSE "denied"
    ELSE "create"

\* The branch acquire_lock takes on the row its SELECT returned, at NOW() = t.
AcquireBranch(v_user_id, v_existing_lock, t) ==
  IF v_existing_lock # NoRow
    THEN IF v_existing_lock.locked_by = v_user_id THEN "extend"
         ELSE IF v_existing_lock.expires_at < t THEN "take_over"
         ELSE "denied"
    ELSE "create"

\* v_expires_at := NOW() + (p_lock_duration_minutes || ' minutes')::interval
ExpiresAt(t, d) == t + d

\* RETURN of the unauthenticated branch.
UnauthenticatedResult == [success |-> FALSE, error |-> "Not authenticated"]

\* RETURN of the denied branch.
DeniedResult(v_existing_lock) ==
  [success |-> FALSE,
   error |-> "Record is being edited",
   locked_by |-> v_existing_lock.locked_by,
   locked_by_name |-> v_existing_lock.locked_by_name,
   locked_at |-> v_existing_lock.locked_at,
   expires_at |-> v_existing_lock.expires_at]

\* RETURN of the extend, the take-over and the create branch.
ExtendedResult(lock_id, v_expires_at) ==
  [success |-> TRUE, lock_id |-> lock_id, expires_at |-> v_expires_at, extended |-> TRUE]

TookOverResult(lock_id, v_expires_at) ==
  [success |-> TRUE, lock_id |-> lock_id, expires_at |-> v_expires_at, took_over |-> TRUE]

CreatedResult(lock_id, v_expires_at) ==
  [success |-> TRUE, lock_id |-> lock_id, expires_at |-> v_expires_at, created |-> TRUE]

\* Mutant: the extension stores NOW() instead of v_expires_at.
ExtendRow_NoDuration(row, t, v_expires_at) ==
  [row EXCEPT !.expires_at = t, !.locked_at = t]

\* UPDATE record_locks SET expires_at = v_expires_at, locked_at = NOW()
ExtendRow(row, t, v_expires_at) ==
  [row EXCEPT !.expires_at = v_expires_at, !.locked_at = t]

\* Mutant: the take-over resets the times and leaves the holder.
TakeOverRow_KeepsHolder(row, v_user_id, t, v_expires_at) ==
  [row EXCEPT !.locked_at = t, !.expires_at = v_expires_at]

\* UPDATE record_locks SET locked_by, locked_by_name, locked_at, expires_at
TakeOverRow(row, v_user_id, t, v_expires_at) ==
  [row EXCEPT !.locked_by = v_user_id,
              !.locked_by_name = full_name(v_user_id),
              !.locked_at = t,
              !.expires_at = v_expires_at]

\* INSERT INTO record_locks (entity_type, entity_id, locked_by,
\* locked_by_name, expires_at) VALUES (...); locked_at DEFAULT NOW()
InsertRow(lock_id, e, v_user_id, t, v_expires_at) ==
  [id |-> lock_id,
   entity |-> e,
   locked_by |-> v_user_id,
   locked_by_name |-> full_name(v_user_id),
   locked_at |-> t,
   expires_at |-> v_expires_at]

\* ... WHERE id = v_existing_lock.id: the rows an UPDATE of acquire_lock
\* rewrites; none when the row read is gone.
WhereId(locks, lock_id) == {r \in locks : r.id = lock_id}

\* First statement of acquire_lock: auth.uid(), the profile lookup and the
\* SELECT of the existing lock.  The unauthenticated and the denied branch
\* run no further statement and return here.  The function first reads
\* p_lock_duration_minutes in the branch it takes, so the value the caller
\* passed is drawn there.
AcquireSelect(s, e) ==
  /\ call[s] = Idle
  /\ LET v_user_id == auth_uid(s)
         v_existing_lock == SelectInto(RowsOf(record_locks, e))
         branch == AcquireBranch(v_user_id, v_existing_lock, now)
     IN IF v_user_id = NULL
          THEN /\ last' = AcquireReturn(s, e, NoRow, acquireLock(Ok(UnauthenticatedResult)))
               /\ UNCHANGED call
        ELSE IF branch = "denied"
          THEN /\ last' = AcquireReturn(s, e, v_existing_lock,
                                        acquireLock(Ok(DeniedResult(v_existing_lock))))
               /\ UNCHANGED call
        ELSE /\ call' = [call EXCEPT ![s] =
                   [pc |-> branch, v_user_id |-> v_user_id, entity |-> e,
                    now |-> now, v_existing_lock |-> Snapshot(v_existing_lock)]]
             /\ last' = NoResult
  /\ UNCHANGED <<now, record_locks>>

\* Branch "It's our lock - extend it".
AcquireExtend(s, d) ==
  /\ call[s].pc = "extend"
  /\ LET c == call[s]
         v_expires_at == ExpiresAt(c.now, d)
         matched == WhereId(record_locks, c.v_existing_lock.id)
     IN /\ record_locks' = (record_locks \ matched)
              \cup {ExtendRow(row, c.now, v_expires_at) : row \in matched}
        /\ last' = AcquireReturn(s, c.entity, c.v_existing_lock,
              acquireLock(Ok(ExtendedResult(c.v_existing_lock.id, v_expires_at))))
  /\ call' = [call EXCEPT ![s] = Idle]
  /\ UNCHANGED now

\* Branch "Lock expired - take it over".
AcquireTakeOver(s, d) ==
  /\ call[s].pc = "take_over"
  /\ LET c == call[s]
         v_expires_at == ExpiresAt(c.now, d)
         matched == WhereId(record_locks, c.v_existing_lock.id)
     IN /\ record_locks' = (record_locks \ matched)
              \cup {TakeOverRow(row, c.v_user_id, c.now, v_expires_at) : row \in matched}
        /\ last' = AcquireReturn(s, c.entity, c.v_existing_lock,
              acquireLock(Ok(TookOverResult(c.v_existing_lock.id, v_expires_at))))
  /\ call' = [call EXCEPT ![s] = Idle]
  /\ UNCHANGED now

\* Branch "No lock exists - create one".  When another transaction has
\* committed a row for the entity since the SELECT, the INSERT violates the
\* unique constraint: the function raises and the RPC returns an error.
AcquireCreate(s, d) ==
  /\ call[s].pc = "create"
  /\ LET c == call[s]
         v_expires_at == ExpiresAt(c.now, d)
         lock_id == uuid_generate_v4
     IN IF UniqueViolation(record_locks, c.entity)
          THEN /\ last' = AcquireReturn(s, c.entity, NoRow,
                     acquireLock(Err("duplicate key value violates unique constraint")))
               /\ UNCHANGED record_locks
          ELSE /\ record_locks' = record_locks \cup
                     {InsertRow(lock_id, c.entity, c.v_user_id, c.now, v_expires_at)}
               /\ last' = AcquireReturn(s, c.entity, NoRow,
                     acquireLock(Ok(CreatedResult(lock_id, v_expires_at))))
  /\ call' = [call EXCEPT ![s] = Idle]
  /\ UNCHANGED now

\* ------------------------------------------------------------ release_lock
\* Mutant: the DELETE lacks AND locked_by = v_user_id.
ReleaseDeletes_AnyHolder(locks, v_user_id, e) ==
  IF v_user_id = NULL THEN {} ELSE RowsOf(locks, e)

\* The rows DELETE FROM record_locks WHERE entity = e AND locked_by =
\* v_user_id removes; none when auth.uid() is NULL.
ReleaseDeletes(locks, v_user_id, e) ==
  IF v_user_id = NULL THEN {}
  ELSE {r \in RowsOf(locks, e) : r.locked_by = v_user_id}

\* RETURN FOUND
ReleaseLock(s, e) ==
  /\ call[s] = Idle
  /\ LET deleted == ReleaseDeletes(record_locks, auth_uid(s), e)
     IN /\ record_locks' = record_locks \ deleted
        /\ last' = [op |-> "release", session |-> s, entity |-> e,
                    result |-> releaseLock(Ok(deleted # {}))]
  /\ UNCHANGED <<now, call>>

\* -------------------------------------------------------------- check_lock
\* Mutant: the SELECT lacks AND expires_at > NOW().
check_lock_NoExpiry(locks, v_user_id, e, t) ==
  LET v_lock == SelectInto(RowsOf(locks, e))
  IN IF v_lock = NoRow
       THEN [locked |-> FALSE]
       ELSE [locked |-> TRUE,
             is_mine |-> (v_lock.locked_by = v_user_id),
             locked_by |-> v_lock.locked_by,
             locked_by_name |-> v_lock.locked_by_name,
             locked_at |-> v_lock.locked_at,
             expires_at |-> v_lock.expires_at]

\* SELECT * INTO v_lock ... WHERE entity = e AND expires_at > NOW()
check_lock(locks, v_user_id, e, t) ==
  LET v_lock == SelectInto({r \in RowsOf(locks, e) : r.expires_at > t})
  IN IF v_lock = NoRow
       THEN [locked |-> FALSE]
       ELSE [locked |-> TRUE,
             is_mine |-> (v_lock.locked_by = v_user_id),
             locked_by |-> v_lock.locked_by,
             locked_by_name |-> v_lock.locked_by_name,
             locked_at |-> v_lock.locked_at,
             expires_at |-> v_lock.expires_at]

CheckLock(s, e) ==
  /\ call[s] = Idle
  /\ last' = [op |-> "check", session |-> s, entity |-> e,
              result |-> checkLock(Ok(check_lock(record_locks, auth_uid(s), e, now)))]
  /\ UNCHANGED <<now, record_locks, call>>

\* --------------------------------------------------- cleanup_expired_locks
\* Mutant: the sweep also removes the rows that expire at NOW().
CleanupDeletes_AtExpiry(locks, t) == {r \in locks : r.expires_at <= t}

\* The rows DELETE FROM record_locks WHERE expires_at < NOW() removes.
CleanupDeletes(locks, t) == {r \in locks : r.expires_at < t}

\* The sweep, run by cron; it returns v_count, the number of rows deleted.
CleanupExpired ==
  /\ LET deleted == CleanupDeletes(record_locks, now)
     IN /\ record_locks' = record_locks \ deleted
        /\ last' = [op |-> "cleanup", deleted |-> deleted,
                    result |-> Cardinality(deleted)]
  /\ UNCHANGED <<now, call>>

\* ------------------------------------------------------------------ clock
Tick ==
  /\ now < MaxTime
  /\ now' = now + 1
  /\ last' = NoResult
  /\ UNCHANGED <<record_locks, call>>

\* ====================================================================
\* The editing client: useRecordLock and useEditMode (hooks/useRecordLock)
\* ====================================================================
\* One browser page of principal Me shows entityId through useEditMode.
\* Time is counted in minutes: extendInterval, 60 seconds in the code, is
\* one step of the clock.  lockDuration is the option of the same name.
\*
\* A state update is followed by its render within the same task, so every
\* handler step below ends with the render it causes.  useEditMode passes
\* onLockLost as an inline arrow function, a new function on every render:
\* refresh, which depends on it, is a new function on every render too, and
\* both effects of useRecordLock run again after every render.  So every
\* render restarts the extension interval (when the lock is mine) and calls
\* refresh, whose answer sets lockInfo and renders again: a checkLock call
\* is in flight whenever the hook is mounted.
Me == "A"
Rivals == {"B"}
entityId == "company:42"
initialData == "loaded"
lockDuration == 1
extendInterval == 1

NullInfo == [null |-> TRUE]
NoOut == [op |-> "none"]

\* { k: r.k } of the keys r has; a key whose value is undefined is left out.
Pick(r, keys) == [k \in (keys \cap DOMAIN r) |-> r[k]]

\* Derived state of useRecordLock.
isLocked(info) == Flag(info, "locked")
isLockedByMe(info) == Flag(info, "is_mine")
isLockedByOther(info) == isLocked(info) /\ ~isLockedByMe(info)

\* The auto-extend effect as it runs after a render: it clears the interval
\* and, when the lock is mine, sets a new one (elapsed time 0).
AutoExtendEffect(info) == IF isLockedByMe(info) THEN {0} ELSE {}

\* Mutant: the lost lock leaves the edit data in place.
onLockLost_KeepsData(seen, editing, editing_data) ==
  IF seen
    THEN [isEditing |-> FALSE, editData |-> editing_data, alert |-> TRUE]
    ELSE [isEditing |-> editing, editData |-> editing_data, alert |-> FALSE]

\* onLockLost of useEditMode: if (isEditing), leave edit mode, drop the
\* edit data, alert.  seen is the isEditing of the render that made the
\* function; editing and editing_data are the state the setters act on.
onLockLost(seen, editing, editing_data) ==
  IF seen
    THEN [isEditing |-> FALSE, editData |-> NULL, alert |-> TRUE]
    ELSE [isEditing |-> editing, editData |-> editing_data, alert |-> FALSE]

\* setLockInfo of acquire after result.success.
AcquiredInfo(result) ==
  [locked |-> TRUE, is_mine |-> TRUE] @@ Pick(result, {"expires_at"})

\* setLockInfo of acquire after a result without success.
FailedInfo(result) ==
  [locked |-> TRUE, is_mine |-> FALSE]
    @@ Pick(result, {"locked_by", "locked_by_name", "locked_at", "expires_at"})

\* setLockInfo of the interval callback after a result without success.
LostInfo(result) ==
  [locked |-> TRUE, is_mine |-> FALSE] @@ Pick(result, {"locked_by", "locked_by_name"})

\* Mutant: startEdit enters edit mode whatever acquire returned.
startEdit_IgnoresResult(result, editing, data) ==
  [isEditing |-> TRUE, editData |-> initialData, ret |-> TRUE]

\* startEdit of useEditMode after acquire() has returned result.
startEdit(result, editing, data) ==
  IF result.success
    THEN [isEditing |-> TRUE, editData |-> initialData, ret |-> TRUE]
    ELSE [isEditing |-> editing, editData |-> data, ret |-> FALSE]

\* Mutant: a failed save leaves edit mode like a successful one.
saveEdit_LeavesOnFailure(ok, editing, data) ==
  [isEditing |-> FALSE, editData |-> NULL, release |-> TRUE]

\* saveEdit of useEditMode after onSave has settled: ok when it resolved,
\* not ok when it threw.
saveEdit(ok, editing, data) ==
  IF ok
    THEN [isEditing |-> FALSE, editData |-> NULL, release |-> TRUE]
    ELSE [isEditing |-> editing, editData |-> data, release |-> FALSE]

\* Mutant: cancelEdit calls release only when the lock is known to be mine.
cancelEdit_ReleasesIfMine(info) ==
  [isEditing |-> FALSE, editData |-> NULL, release |-> isLockedByMe(info)]

\* cancelEdit of useEditMode.
cancelEdit(info) ==
  [isEditing |-> FALSE, editData |-> NULL, release |-> entityId # NULL]

\* A release call joins the one in flight, if there is one.
IssueRelease(p, from) ==
  [p EXCEPT !.release = IF @ = "none" THEN from ELSE @]

\* ------------------------------------------------------------- acquire
\* startEdit up to the await in acquire: setIsAcquiring(true),
\* setError(null), and the RPC leaves.
StartEdit ==
  /\ mounted
  /\ initialData # NULL
  /\ entityId # NULL
  /\ pending.acquire = "none"
  /\ pending' = [pending EXCEPT !.acquire = "startEdit"]
  /\ extendIntervalRef' = AutoExtendEffect(lockInfo)
  /\ sinceAcquire' = 0
  /\ UNCHANGED leftBy
  /\ out' = NoOut
  /\ last' = NoResult
  /\ UNCHANGED <<now, record_locks, call, mounted, lockInfo, isEditing, editData>>

\* acquire and startEdit after the await.
StartEditResolved(result) ==
  LET edit == startEdit(result, isEditing, editData)
  IN /\ lockInfo' = IF result.success THEN AcquiredInfo(result) ELSE FailedInfo(result)
     /\ isEditing' = edit.isEditing
     /\ editData' = edit.editData
     /\ extendIntervalRef' = AutoExtendEffect(lockInfo')
     /\ out' = [op |-> "startEdit", result |-> result, ret |-> edit.ret]

\* The interval callback after the await.  Its onLockLost is the function
\* of the render that set the interval, whose isEditing is kept in
\* pending.editing.
ExtendResolved(result) ==
  IF result.success
    THEN /\ out' = [op |-> "extend", result |-> result, lost |-> FALSE, alert |-> FALSE]
         /\ UNCHANGED <<lockInfo, isEditing, editData, extendIntervalRef>>
    ELSE LET edit == onLockLost(pending.editing, isEditing, editData)
         IN /\ lockInfo' = LostInfo(result)
            /\ isEditing' = edit.isEditing
            /\ editData' = edit.editData
            /\ extendIntervalRef' = AutoExtendEffect(lockInfo')
            /\ out' = [op |-> "extend", result |-> result, lost |-> TRUE,
                        alert |-> edit.alert]

\* The acquireLock call in flight returns result to the code that awaits it.
AcquireResolved(result) ==
  /\ pending' = [pending EXCEPT !.acquire = "none", !.editing = FALSE]
  /\ IF ~mounted
       THEN /\ out' = NoOut
            /\ UNCHANGED <<lockInfo, isEditing, editData, extendIntervalRef>>
     ELSE IF pending.acquire = "startEdit"
       THEN StartEditResolved(result)
     ELSE ExtendResolved(result)
  /\ leftBy' = IF mounted /\ pending.acquire = "startEdit" /\ result.success
                 THEN "none" ELSE leftBy
  /\ UNCHANGED <<mounted, sinceAcquire>>

hookVars ==
  <<mounted, lockInfo, isEditing, editData, extendIntervalRef, pending, out,
    sinceAcquire, leftBy>>

\* The statements of Me's acquire_lock call, each with what the client does
\* when the call returns.
HookAcquireSelect ==
  /\ pending.acquire # "none"
  /\ AcquireSelect(Me, entityId)
  /\ IF last'.op = "acquire"
       THEN AcquireResolved(last'.result)
       ELSE UNCHANGED hookVars

HookAcquireExtend ==
  /\ AcquireExtend(Me, lockDuration)
  /\ AcquireResolved(last'.result)

HookAcquireTakeOver ==
  /\ AcquireTakeOver(Me, lockDuration)
  /\ AcquireResolved(last'.result)

HookAcquireCreate ==
  /\ AcquireCreate(Me, lockDuration)
  /\ AcquireResolved(last'.result)

\* The RPC does not reach the database: supabase returns an error.
HookAcquireFails ==
  /\ pending.acquire # "none"
  /\ call[Me] = Idle
  /\ last' = NoResult
  /\ AcquireResolved(acquireLock(Err("Failed to fetch")))
  /\ UNCHANGED <<now, record_locks, call>>

\* The interval callback up to its await.
ExtendTimerFires ==
  /\ mounted
  /\ extendInterval \in extendIntervalRef
  /\ isLockedByMe(lockInfo)
  /\ pending.acquire = "none"
  /\ pending' = [pending EXCEPT !.acquire = "extend", !.editing = isEditing]
  /\ extendIntervalRef' = {0}
  /\ sinceAcquire' = 0
  /\ UNCHANGED leftBy
  /\ out' = NoOut
  /\ last' = NoResult
  /\ UNCHANGED <<now, record_locks, call, mounted, lockInfo, isEditing, editData>>

\* ------------------------------------------------------------- refresh
\* refresh after the await of checkLock.
RefreshResolved(info) ==
  LET lost == isLockedByMe(lockInfo) /\ ~Flag(info, "is_mine") /\ Flag(info, "locked")
      edit == IF lost THEN onLockLost(isEditing, isEditing, editData)
              ELSE [isEditing |-> isEditing, editData |-> editData, alert |-> FALSE]
  IN /\ lockInfo' = info
     /\ isEditing' = edit.isEditing
     /\ editData' = edit.editData
     /\ extendIntervalRef' = AutoExtendEffect(info)
     /\ out' = [op |-> "refresh", lost |-> lost, alert |-> edit.alert]
     /\ UNCHANGED <<mounted, pending, sinceAcquire, leftBy>>

Refresh ==
  /\ mounted
  /\ CheckLock(Me, entityId)
  /\ RefreshResolved(last'.result)

RefreshFails ==
  /\ mounted
  /\ last' = NoResult
  /\ RefreshResolved(checkLock(Err("Failed to fetch")))
  /\ UNCHANGED <<now, record_locks, call>>

\* ------------------------------------------------------------ edit mode
\* updateField: setEditData(prev => prev ? {...prev, [field]: value} : null)
UpdateField ==
  /\ mounted
  /\ editData # NULL
  /\ editData' = "typed"
  /\ extendIntervalRef' = AutoExtendEffect(lockInfo)
  /\ out' = NoOut
  /\ last' = NoResult
  /\ UNCHANGED <<now, record_locks, call, mounted, lockInfo, isEditing, pending,
                 sinceAcquire, leftBy>>

CancelEdit ==
  /\ mounted
  /\ LET edit == cancelEdit(lockInfo)
     IN /\ isEditing' = edit.isEditing
        /\ editData' = edit.editData
        /\ pending' = IF edit.release THEN IssueRelease(pending, "cancel") ELSE pending
        /\ out' = [op |-> "cancelEdit", wasEditing |-> isEditing, release |-> edit.release]
  /\ extendIntervalRef' =
       IF isEditing \/ editData # NULL THEN AutoExtendEffect(lockInfo) ELSE extendIntervalRef
  /\ leftBy' = IF isEditing THEN "cancel" ELSE leftBy
  /\ last' = NoResult
  /\ UNCHANGED <<now, record_locks, call, mounted, lockInfo, sinceAcquire>>

\* saveEdit up to the await of onSave.
SaveEdit ==
  /\ mounted
  /\ ~pending.save
  /\ IF editData = NULL \/ ~isLockedByMe(lockInfo)
       THEN /\ out' = [op |-> "saveEdit", ret |-> FALSE]
            /\ UNCHANGED <<pending, extendIntervalRef>>
       ELSE /\ pending' = [pending EXCEPT !.save = TRUE]
            /\ extendIntervalRef' = AutoExtendEffect(lockInfo)
            /\ out' = NoOut
  /\ last' = NoResult
  /\ UNCHANGED <<now, record_locks, call, mounted, lockInfo, isEditing, editData,
                 sinceAcquire, leftBy>>

\* saveEdit after onSave has settled; on success it goes on to await
\* release and returns when that has settled.
SaveSettled(ok) ==
  /\ pending.save
  /\ LET edit == saveEdit(ok, isEditing, editData)
     IN /\ isEditing' = IF mounted THEN edit.isEditing ELSE isEditing
        /\ editData' = IF mounted THEN edit.editData ELSE editData
        /\ pending' = [(IF edit.release THEN IssueRelease(pending, "save") ELSE pending)
                         EXCEPT !.save = FALSE]
        /\ out' = IF edit.release
                    THEN [op |-> "saveEdit", saved |-> ok, release |-> TRUE]
                    ELSE [op |-> "saveEdit", saved |-> ok, ret |-> FALSE, release |-> FALSE]
  /\ extendIntervalRef' = IF mounted THEN AutoExtendEffect(lockInfo) ELSE extendIntervalRef
  /\ leftBy' = IF mounted /\ ok /\ isEditing THEN "save" ELSE leftBy
  /\ last' = NoResult
  /\ UNCHANGED <<now, record_locks, call, mounted, lockInfo, sinceAcquire>>

\* ------------------------------------------------------------- release
\* release after the await of releaseLock.
ReleaseResolved(success) ==
  /\ pending' = [pending EXCEPT !.release = "none"]
  /\ IF mounted /\ success
       THEN /\ lockInfo' = [locked |-> FALSE]
            /\ extendIntervalRef' = AutoExtendEffect(lockInfo')
       ELSE UNCHANGED <<lockInfo, extendIntervalRef>>
  /\ out' = IF pending.release = "save"
              THEN [op |-> "saveEdit", released |-> success, ret |-> TRUE]
              ELSE [op |-> "release", released |-> success]
  /\ UNCHANGED <<mounted, isEditing, editData, sinceAcquire, leftBy>>

HookRelease ==
  /\ pending.release # "none"
  /\ ReleaseLock(Me, entityId)
  /\ ReleaseResolved(last'.result)

HookReleaseFails ==
  /\ pending.release # "none"
  /\ last' = NoResult
  /\ ReleaseResolved(releaseLock(Err("Failed to fetch")))
  /\ UNCHANGED <<now, record_locks, call>>

\* ------------------------------------------------------------- unmount
\* The cleanups of the three effects: unsubscribe, clearInterval, and
\* releaseLock when isLockedByMeRef.current, the value of isLockedByMe at
\* the last render, is true.
Unmount ==
  /\ mounted
  /\ mounted' = FALSE
  /\ extendIntervalRef' = {}
  /\ LET release == isLockedByMe(lockInfo) /\ entityId # NULL
     IN /\ pending' = IF release THEN IssueRelease(pending, "unmount") ELSE pending
        /\ out' = [op |-> "unmount", release |-> release]
  /\ last' = NoResult
  /\ UNCHANGED <<now, record_locks, call, lockInfo, isEditing, editData, sinceAcquire,
                 leftBy>>

\* --------------------------------------------------------------- clock
\* A minute passes.  An interval callback that is due runs first.
HookTick ==
  /\ Tick
  /\ extendInterval \notin extendIntervalRef
  /\ extendIntervalRef' = {t + 1 : t \in extendIntervalRef}
  /\ sinceAcquire' = IF isEditing /\ isLockedByMe(lockInfo) THEN sinceAcquire + 1 ELSE 0
  /\ UNCHANGED leftBy
  /\ out' = NoOut
  /\ UNCHANGED <<mounted, lockInfo, isEditing, editData, pending>>

\* The other principals call the lock functions directly.
RivalStep ==
  /\ \E s \in Rivals :
       \/ AcquireSelect(s, entityId)
       \/ AcquireExtend(s, lockDuration)
       \/ AcquireTakeOver(s, lockDuration)
       \/ AcquireCreate(s, lockDuration)
       \/ ReleaseLock(s, entityId)
  /\ out' = NoOut
  /\ UNCHANGED <<mounted, lockInfo, isEditing, editData, extendIntervalRef, pending,
                 sinceAcquire, leftBy>>

HookInit ==
  /\ mounted = TRUE
  /\ lockInfo = NullInfo
  /\ isEditing = FALSE
  /\ editData = NULL
  /\ extendIntervalRef = {}
  /\ pending = [acquire |-> "none", editing |-> FALSE, release |-> "none", save |-> FALSE]
  /\ out = NoOut
  /\ sinceAcquire = 0
  /\ leftBy = "none"

\* ====================================================================
\* Optimistic locking: the version column and the update paths
\* ====================================================================
\* One row of companies, and for every editor the row its page last
\* fetched (data and version of useRealtimeRecord).
MaxVersion == 3
Editors == {"A", "B"}
Names == {"Acme", "Apex", "Atlas"}

\* The payloads of an update: any subset of the columns name and version.
Payloads ==
  [name : Names]
    \cup [version : 0..MaxVersion]
    \cup [name : Names, version : 0..MaxVersion]

\* COALESCE(OLD.version, 0)
COALESCE(row, default) == IF Has(row, "version") THEN row.version ELSE default

\* Mutant: the trigger leaves the version the statement set.
increment_version_KeepsPayload(old, new) == new

\* BEFORE UPDATE trigger: NEW.version := COALESCE(OLD.version, 0) + 1
increment_version(old, new) ==
  [k \in DOMAIN new \cup {"version"} |->
     IF k = "version" THEN COALESCE(old, 0) + 1 ELSE new[k]]

\* UPDATE companies SET <updates> on row old, with the trigger.
UpdateRow(old, updates) == increment_version(old, updates @@ old)

\* Mutant: the update is not conditioned on the version.
VersionMatches_Always(row, expectedVersion) == TRUE

\* .eq('version', expectedVersion)
VersionMatches(row, expectedVersion) ==
  Has(row, "version") /\ row.version = expectedVersion

\* The page fetches the row.
Fetch(c) ==
  /\ record' = [record EXCEPT ![c] = companies]
  /\ vout' = [op |-> "fetch", editor |-> c]
  /\ UNCHANGED companies

\* updateWithVersionCheck: no row matches id and version, .single() fails
\* with PGRST116 and the function throws the conflict error.
UpdateWithVersionCheck(c, updates, expectedVersion) ==
  /\ IF VersionMatches(companies, expectedVersion)
       THEN /\ companies.version < MaxVersion
            /\ companies' = UpdateRow(companies, updates)
            /\ vout' = [op |-> "updateWithVersionCheck", editor |-> c, updates |-> updates,
                        expectedVersion |-> expectedVersion, conflict |-> FALSE]
       ELSE /\ vout' = [op |-> "updateWithVersionCheck", editor |-> c, updates |-> updates,
                        expectedVersion |-> expectedVersion, conflict |-> TRUE]
            /\ UNCHANGED companies
  /\ UNCHANGED record

\* useUpdateCompany: .update(data).eq('id', id), from a page that has
\* fetched the row.
UpdateCompany(c, updates) ==
  /\ record[c] # NoRow
  /\ companies.version < MaxVersion
  /\ companies' = UpdateRow(companies, updates)
  /\ vout' = [op |-> "useUpdateCompany", editor |-> c, updates |-> updates,
              conflict |-> FALSE]
  /\ UNCHANGED record

VersionInit ==
  /\ companies = [name |-> "Acme", version |-> 1]
  /\ record = [c \in Editors |-> NoRow]
  /\ vout = [op |-> "none"]

versionVars == <<companies, record, vout>>

\* ====================================================================
\* Presence: table user_presence and its functions
\* ====================================================================
\* Time is counted in minutes, as for the locks.  The row id is left out:
\* no function reads it.  (entity_type, entity_id) is one value, NULL on a
\* list page.
MaxPresenceTime == 6
FreshWindow == 2
StaleWindow == 5

PresenceUsers == {"A", "B"}
PresenceEntities == {"company:42", "company:43"}
Statuses == {"online", "idle", "editing"}

\* What usePresence passes as currentPage and entity: a list page, or the
\* page of a record.
Locations ==
  {[current_page |-> "/companies", entity |-> NULL]}
    \cup {[current_page |-> "/company/42", entity |-> "company:42"],
          [current_page |-> "/company/43", entity |-> "company:43"]}

\* services/presence.ts updatePresence: an RPC error becomes false.
updatePresence(rpc) ==
  IF rpc.error # NULL THEN FALSE ELSE rpc.data

\* services/presence.ts getViewers: an RPC error becomes the empty list.
getViewers(rpc) ==
  IF rpc.error # NULL THEN {} ELSE rpc.data

\* Mutant: a plain INSERT, without the conflict clause and the constraint.
update_presence_InsertOnly(rows, v_user_id, p_current_page, p_entity, p_status, t) ==
  rows \cup {[user_id |-> v_user_id,
              user_name |-> full_name(v_user_id),
              current_page |-> p_current_page,
              entity |-> p_entity,
              status |-> p_status,
              last_seen |-> t]}

\* INSERT INTO user_presence (...) VALUES (..., NOW()) ON CONFLICT (user_id)
\* DO UPDATE SET user_name, current_page, entity, status = EXCLUDED...,
\* last_seen = NOW(): the table after the statement.
update_presence(rows, v_user_id, p_current_page, p_entity, p_status, t) ==
  {r \in rows : r.user_id # v_user_id}
    \cup {[user_id |-> v_user_id,
           user_name |-> full_name(v_user_id),
           current_page |-> p_current_page,
           entity |-> p_entity,
           status |-> p_status,
           last_seen |-> t]}

\* update_presence called by session s; RETURN false without a user.
UpdatePresence(s, p_current_page, p_entity, p_status) ==
  /\ LET v_user_id == auth_uid(s)
     IN IF v_user_id = NULL
          THEN /\ UNCHANGED user_presence
               /\ last' = [op |-> "update_presence", session |-> s,
                           result |-> updatePresence(Ok(FALSE))]
          ELSE /\ user_presence' = update_presence(user_presence, v_user_id,
                                      p_current_page, p_entity, p_status, now)
               /\ last' = [op |-> "update_presence", session |-> s,
                           args |-> [current_page |-> p_current_page,
                                     entity |-> p_entity, status |-> p_status],
                           result |-> updatePresence(Ok(TRUE))]
  /\ UNCHANGED <<now, record_locks, call>>

\* The columns get_viewers returns of a row.
Viewer(r) == Pick(r, {"user_id", "user_name", "status", "last_seen"})

\* Mutant: the SELECT lacks the last_seen condition.
get_viewers_NoWindow(rows, v_user_id, p_entity, t) ==
  IF v_user_id = NULL THEN {}
  ELSE {Viewer(up) : up \in {r \in rows : /\ r.entity = p_entity
                                          /\ r.user_id # v_user_id}}

\* SELECT ... FROM user_presence up WHERE up.entity = p_entity AND
\* up.last_seen > NOW() - INTERVAL '2 minutes' AND up.user_id != auth.uid().
\* A comparison with NULL is not true: no row matches for a caller without
\* a user, and a row of a list page matches no entity.
get_viewers(rows, v_user_id, p_entity, t) ==
  IF v_user_id = NULL THEN {}
  ELSE {Viewer(up) : up \in {r \in rows : /\ r.entity = p_entity
                                          /\ r.last_seen > t - FreshWindow
                                          /\ r.user_id # v_user_id}}

GetViewers(s, p_entity) ==
  /\ last' = [op |-> "get_viewers", session |-> s, entity |-> p_entity,
              result |-> getViewers(Ok(get_viewers(user_presence, auth_uid(s),
                                                   p_entity, now)))]
  /\ UNCHANGED <<now, record_locks, call, user_presence>>

\* The rows DELETE FROM user_presence WHERE last_seen < NOW() - INTERVAL
\* '5 minutes' removes.
StaleDeletes(rows, t) == {r \in rows : r.last_seen < t - StaleWindow}

\* cleanup_stale_presence; it returns v_count, the number of rows deleted.
CleanupStalePresence ==
  /\ LET deleted == StaleDeletes(user_presence, now)
     IN /\ user_presence' = user_presence \ deleted
        /\ last' = [op |-> "cleanup_stale_presence", deleted |-> deleted,
                    result |-> Cardinality(deleted)]
  /\ UNCHANGED <<now, record_locks, call>>

PresenceTick ==
  /\ now < MaxPresenceTime
  /\ now' = now + 1
  /\ last' = NoResult
  /\ UNCHANGED <<record_locks, call, user_presence>>

PresenceInit == user_presence = {}

presenceVars == <<user_presence>>

\* ====================================================================
\* The record page: useDetailView, usePresence with useEditMode
\* ====================================================================
\* The page of Me shows entityId through useDetailView.  useRecordLock is
\* taken by what it hands to useEditMode: the result of the acquireLock
\* call of startEdit, the answers of checkLock that refresh stores, and
\* the result of releaseLock.  idleWindow is the timeout of the idle
\* timer, 2 * 60 * 1000 ms, in minutes.
idleWindow == 2

\* updateStatus: statusRef.current = status; sendPresence(status).  The
\* value is what statusRef holds afterwards.
updateStatus(status) == status

\* resetIdleTimer, the listener of mousedown, keydown, scroll and
\* touchstart: nothing while the status is editing; else back to online
\* from idle, and a new timeout in place of the old one.
resetIdleTimer(status, timeout) ==
  IF status = "editing"
    THEN [statusRef |-> status, idleTimeout |-> timeout]
    ELSE [statusRef |-> IF status = "idle" THEN updateStatus("online") ELSE status,
          idleTimeout |-> {0}]

\* The callback of the idle timeout.
idleCallback(status) ==
  IF status # "editing" THEN updateStatus("idle") ELSE status

\* The results acquireLock can hand to startEdit: success, a denial in
\* favour of a rival, a failed call.
AcquireResults ==
  {acquireLock(Ok(CreatedResult(1, ExpiresAt(0, lockDuration)))),
   acquireLock(Err("Failed to fetch"))}
    \cup {acquireLock(Ok(DeniedResult(InsertRow(1, entityId, p, 0,
                                                ExpiresAt(0, lockDuration))))) :
            p \in Rivals}

\* The answers checkLock can hand to refresh: no lock, my lock, a rival's.
CheckAnswers ==
  {checkLock(Ok(check_lock({}, Me, entityId, 0)))}
    \cup {checkLock(Ok(check_lock({InsertRow(1, entityId, p, 0,
                                             ExpiresAt(0, lockDuration))},
                                  Me, entityId, 0))) :
            p \in {Me} \cup Rivals}

\* startEdit of useDetailView up to the await in acquire.
DetailStartEdit ==
  /\ StartEdit
  /\ UNCHANGED <<statusRef, idleTimeout, quiet>>

\* startEdit of useDetailView after the await: updateStatus('editing')
\* when editMode.startEdit returned true.
DetailStartEditReturns(result) ==
  /\ pending.acquire = "startEdit"
  /\ AcquireResolved(result)
  /\ statusRef' = IF out'.op = "startEdit" /\ out'.ret
                    THEN updateStatus("editing") ELSE statusRef
  /\ last' = NoResult
  /\ UNCHANGED <<now, record_locks, call, idleTimeout, quiet>>

\* refresh stores an answer of checkLock; onLockLost runs as useEditMode
\* defines it, and useDetailView adds nothing to it.
DetailRefresh(info) ==
  /\ mounted
  /\ RefreshResolved(info)
  /\ quiet' = IF isEditing /\ ~isEditing' THEN 0 ELSE quiet
  /\ last' = NoResult
  /\ UNCHANGED <<now, record_locks, call, statusRef, idleTimeout>>

\* cancelEdit with the onCancel of useDetailView: updateStatus('online').
DetailCancelEdit ==
  /\ isEditing
  /\ CancelEdit
  /\ statusRef' = updateStatus("online")
  /\ quiet' = 0
  /\ UNCHANGED idleTimeout

\* saveEdit up to the await in the onSave of useDetailView, which starts
\* with updateStatus('online').
DetailSaveEdit ==
  /\ SaveEdit
  /\ statusRef' = IF pending'.save THEN updateStatus("online") ELSE statusRef
  /\ UNCHANGED <<idleTimeout, quiet>>

\* saveEdit after onSave has settled.
DetailSaveSettled(ok) ==
  /\ SaveSettled(ok)
  /\ quiet' = IF isEditing /\ ~isEditing' THEN 0 ELSE quiet
  /\ UNCHANGED <<statusRef, idleTimeout>>

\* The releaseLock call of cancelEdit or saveEdit returns: true, or false
\* when no row was deleted or the call failed.
DetailRelease(success) ==
  /\ pending.release # "none"
  /\ ReleaseResolved(success)
  /\ last' = NoResult
  /\ UNCHANGED <<now, record_locks, call, statusRef, idleTimeout, quiet>>

\* A mousedown, keydown, scroll or touchstart event.
UserInput ==
  /\ mounted
  /\ LET reset == resetIdleTimer(statusRef, idleTimeout)
     IN /\ statusRef' = reset.statusRef
        /\ idleTimeout' = reset.idleTimeout
  /\ quiet' = 0
  /\ out' = NoOut
  /\ last' = NoResult
  /\ UNCHANGED <<now, record_locks, call, mounted, lockInfo, isEditing, editData,
                 extendIntervalRef, pending, sinceAcquire, leftBy>>

\* The idle timeout expires.
IdleTimeoutFires ==
  /\ mounted
  /\ idleWindow \in idleTimeout
  /\ idleTimeout' = {}
  /\ statusRef' = idleCallback(statusRef)
  /\ out' = NoOut
  /\ last' = NoResult
  /\ UNCHANGED <<now, record_locks, call, mounted, lockInfo, isEditing, editData,
                 extendIntervalRef, pending, sinceAcquire, leftBy, quiet>>

\* A minute passes on the page.  A timeout that is due runs first.
DetailTick ==
  /\ idleWindow \notin idleTimeout
  /\ idleTimeout' = {t + 1 : t \in idleTimeout}
  /\ quiet' = IF quiet > idleWindow THEN quiet ELSE quiet + 1
  /\ out' = NoOut
  /\ last' = NoResult
  /\ UNCHANGED <<now, record_locks, call, mounted, lockInfo, isEditing, editData,
                 extendIntervalRef, pending, sinceAcquire, leftBy, statusRef>>

\* statusRef = useRef('online'); the idle effect sets the first timeout.
DetailInit ==
  /\ statusRef = "online"
  /\ idleTimeout = {0}
  /\ quiet = 0

detailVars == <<statusRef, idleTimeout, quiet>>
\* ---------------------------------------------------------- specification
Init ==
  /\ now = 0
  /\ record_locks = {}
  /\ call = [s \in Sessions |-> Idle]
  /\ last = NoResult
  /\ HookInit
  /\ VersionInit
  /\ PresenceInit
  /\ DetailInit

\* The lock functions, called by any session in any order.
Next ==
  \/ \E s \in Sessions, e \in Entities :
       AcquireSelect(s, e) /\ UNCHANGED <<hookVars, versionVars, presenceVars, detailVars>>
  \/ \E s \in Sessions, d \in Durations :
       AcquireExtend(s, d) /\ UNCHANGED <<hookVars, versionVars, presenceVars, detailVars>>
  \/ \E s \in Sessions, d \in Durations :
       AcquireTakeOver(s, d) /\ UNCHANGED <<hookVars, versionVars, presenceVars, detailVars>>
  \/ \E s \in Sessions, d \in Durations :
       AcquireCreate(s, d) /\ UNCHANGED <<hookVars, versionVars, presenceVars, detailVars>>
  \/ \E s \in Sessions, e \in Entities :
       ReleaseLock(s, e) /\ UNCHANGED <<hookVars, versionVars, presenceVars, detailVars>>
  \/ \E s \in Sessions, e \in Entities :
       CheckLock(s, e) /\ UNCHANGED <<hookVars, versionVars, presenceVars, detailVars>>
  \/ CleanupExpired /\ UNCHANGED <<hookVars, versionVars, presenceVars, detailVars>>
  \/ Tick /\ UNCHANGED <<hookVars, versionVars, presenceVars, detailVars>>

Spec == Init /\ [][Next]_vars

\* The page of Me in edit mode and the rivals.  The sweep is left out: it
\* only turns a later take-over or extension into a creation.
HookNext ==
  \/ StartEdit /\ UNCHANGED <<versionVars, presenceVars, detailVars>>
  \/ HookAcquireSelect /\ UNCHANGED <<versionVars, presenceVars, detailVars>>
  \/ HookAcquireExtend /\ UNCHANGED <<versionVars, presenceVars, detailVars>>
  \/ HookAcquireTakeOver /\ UNCHANGED <<versionVars, presenceVars, detailVars>>
  \/ HookAcquireCreate /\ UNCHANGED <<versionVars, presenceVars, detailVars>>
  \/ HookAcquireFails /\ UNCHANGED <<versionVars, presenceVars, detailVars>>
  \/ ExtendTimerFires /\ UNCHANGED <<versionVars, presenceVars, detailVars>>
  \/ Refresh /\ UNCHANGED <<versionVars, presenceVars, detailVars>>
  \/ RefreshFails /\ UNCHANGED <<versionVars, presenceVars, detailVars>>
  \/ UpdateField /\ UNCHANGED <<versionVars, presenceVars, detailVars>>
  \/ CancelEdit /\ UNCHANGED <<versionVars, presenceVars, detailVars>>
  \/ SaveEdit /\ UNCHANGED <<versionVars, presenceVars, detailVars>>
  \/ \E ok \in BOOLEAN : SaveSettled(ok) /\ UNCHANGED <<versionVars, presenceVars, detailVars>>
  \/ HookRelease /\ UNCHANGED <<versionVars, presenceVars, detailVars>>
  \/ HookReleaseFails /\ UNCHANGED <<versionVars, presenceVars, detailVars>>
  \/ Unmount /\ UNCHANGED <<versionVars, presenceVars, detailVars>>
  \/ RivalStep /\ UNCHANGED <<versionVars, presenceVars, detailVars>>
  \/ HookTick /\ UNCHANGED <<versionVars, presenceVars, detailVars>>

HookSpec == Init /\ [][HookNext]_vars

\* The editors fetch and update the row.
VersionNext ==
  \/ \E c \in Editors : Fetch(c) /\ UNCHANGED <<serverVars, hookVars, presenceVars, detailVars>>
  \/ \E c \in Editors, updates \in Payloads, expectedVersion \in 0..MaxVersion :
       UpdateWithVersionCheck(c, updates, expectedVersion)
         /\ UNCHANGED <<serverVars, hookVars, presenceVars, detailVars>>
  \/ \E c \in Editors, updates \in Payloads :
       UpdateCompany(c, updates) /\ UNCHANGED <<serverVars, hookVars, presenceVars, detailVars>>

VersionSpec == Init /\ [][VersionNext]_vars

\* The presence functions, called by any session in any order.
PresenceNext ==
  \/ \E s \in PresenceUsers, loc \in Locations, p_status \in Statuses :
       UpdatePresence(s, loc.current_page, loc.entity, p_status)
         /\ UNCHANGED <<hookVars, versionVars, detailVars>>
  \/ \E s \in PresenceUsers, p_entity \in PresenceEntities :
       GetViewers(s, p_entity) /\ UNCHANGED <<hookVars, versionVars, detailVars>>
  \/ CleanupStalePresence /\ UNCHANGED <<hookVars, versionVars, detailVars>>
  \/ PresenceTick /\ UNCHANGED <<hookVars, versionVars, detailVars>>

PresenceSpec == Init /\ [][PresenceNext]_vars

\* The record page of Me: the user, the timers and the answers of the
\* lock calls.
DetailNext ==
  \/ DetailStartEdit /\ UNCHANGED <<versionVars, presenceVars>>
  \/ \E result \in AcquireResults :
       DetailStartEditReturns(result) /\ UNCHANGED <<versionVars, presenceVars>>
  \/ \E info \in CheckAnswers :
       DetailRefresh(info) /\ UNCHANGED <<versionVars, presenceVars>>
  \/ DetailCancelEdit /\ UNCHANGED <<versionVars, presenceVars>>
  \/ DetailSaveEdit /\ UNCHANGED <<versionVars, presenceVars>>
  \/ \E ok \in BOOLEAN :
       DetailSaveSettled(ok) /\ UNCHANGED <<versionVars, presenceVars>>
  \/ \E success \in BOOLEAN :
       DetailRelease(success) /\ UNCHANGED <<versionVars, presenceVars>>
  \/ UserInput /\ UNCHANGED <<versionVars, presenceVars>>
  \/ IdleTimeoutFires /\ UNCHANGED <<versionVars, presenceVars>>
  \/ DetailTick /\ UNCHANGED <<versionVars, presenceVars>>

DetailSpec == Init /\ [][DetailNext]_vars

\* ====================================================================
\* Properties
\* ====================================================================
\* The step just taken returned result-carrying response op to session s
\* for entity e.
Returned(op, s, e) ==
  /\ last'.op = op
  /\ last'.session = s
  /\ last'.entity = e

\* The step just taken is the first statement of an acquire by s on e: s
\* was idle and now either has the call in flight or has its answer.
Selects(s, e) ==
  /\ call[s] = Idle
  /\ \/ call'[s] # Idle /\ call'[s].entity = e
     \/ call' = call /\ Returned("acquire", s, e)

\* The step just taken is the write of s's call in branch pc, and its return.
Writes(s, pc) ==
  /\ call[s].pc = pc
  /\ call'[s] = Idle

\* The duration the call that just returned was given.
DurationOf(s) == last'.result.expires_at - call[s].now

\* A denial as acquire_lock reports it: success false with the holder's
\* identity and name.
IsDenied(result) ==
  /\ result.success = FALSE
  /\ Has(result, "locked_by")
  /\ Has(result, "locked_by_name")

\* --------------------------------------------------------------------
\* C1. Two principals B and C race acquire on an identity whose lock is
\* held by a third principal A and is expired: the two calls never both
\* return success.  State, as RacedTakeOver(s) describes it: s has read
\* A's expired row and not written yet, and the latest response is a
\* took_over given to another principal that had read the same row of A.
\* The call of s then must not succeed.
RacedTakeOver(s) ==
  /\ call[s].pc = "take_over"
  /\ last.op = "acquire"
  /\ last.session \in Principals \ {s}
  /\ last.entity = call[s].entity
  /\ Flag(last.result, "took_over")
  /\ last.v_existing_lock = call[s].v_existing_lock

C1_OneWinner ==
  [][\A s \in Principals :
       (RacedTakeOver(s) /\ call'[s] = Idle) => ~last'.result.success]_vars

\* --------------------------------------------------------------------
\* C2. Principals race acquire on an identity without a lock row: every
\* call that found no row ends either with created or with the denied
\* result that carries the holder's identity and name.
C2_CreatedOrDenied ==
  [][\A s \in Principals :
       (call[s].pc = "create" /\ call'[s] = Idle)
         => \/ Flag(last'.result, "created")
            \/ IsDenied(last'.result)]_vars

\* --------------------------------------------------------------------
\* C3. For every identity there is at most one lock row and at most one
\* non-expired lock, and at most one session gets is_mine = true from
\* check.
C3_MutualExclusion ==
  \A e \in Entities :
    /\ Cardinality(RowsOf(record_locks, e)) <= 1
    /\ Cardinality({r \in RowsOf(record_locks, e) : r.expires_at > now}) <= 1
    /\ Cardinality({s \in Sessions :
          Flag(check_lock(record_locks, auth_uid(s), e, now), "is_mine")}) <= 1

\* C3's case: a live lock exists, its holder sees is_mine, and another
\* principal's create is in flight against the same identity.
C3_Witness ==
  \E r \in record_locks :
    /\ r.expires_at > now
    /\ Flag(check_lock(record_locks, r.locked_by, r.entity, now), "is_mine")
    /\ \E s \in Principals \ {r.locked_by} :
         call[s].pc = "create" /\ call[s].entity = r.entity

\* --------------------------------------------------------------------
\* C4. While a lock is live and held by A, no acquire, release or sweep
\* step taken for anyone but A changes or deletes the row.
C4_HolderOnly ==
  [][\A r \in record_locks :
       (/\ r.expires_at > now
        /\ \/ last'.op = "cleanup"
           \/ last'.op \in {"acquire", "release"} /\ last'.session # r.locked_by)
         => r \in record_locks']_vars

\* --------------------------------------------------------------------
\* C5. An acquire by B that reads a row held by A (a lock of positive
\* lifetime) is denied whenever expires_at > now and takes the lock over
\* whenever expires_at <= now.
C5_NoGap ==
  [][\A s \in Principals, r \in record_locks :
       (Selects(s, r.entity) /\ r.locked_by # s /\ r.expires_at > r.locked_at)
         => IF r.expires_at > now
              THEN call'[s] = Idle /\ IsDenied(last'.result)
              ELSE call'[s] # Idle /\ call'[s].pc = "take_over"]_vars

\* --------------------------------------------------------------------
\* C6.  The row an extension by s is about to rewrite, when s holds it and
\* the call was issued before the row's expires_at.
HeldLive(s) ==
  {r \in record_locks :
     /\ call[s].pc = "extend"
     /\ r.id = call[s].v_existing_lock.id
     /\ r.locked_by = s
     /\ r.expires_at > call[s].now}

\* C6 as stated: an acquire by the holder, issued before expires_at, with
\* any positive duration, returns extended and leaves expires_at no
\* smaller than it was.
C6_AnyDuration ==
  [][\A s \in Principals, r \in record_locks :
       (Writes(s, "extend") /\ r \in HeldLive(s) /\ DurationOf(s) > 0)
         => /\ Flag(last'.result, "extended")
            /\ \A q \in RowsOf(record_locks', r.entity) :
                 q.expires_at >= r.expires_at]_vars

\* C6 as amended: an acquire by the holder is never denied; issued before
\* expires_at it returns extended and sets expires_at to now + duration,
\* which is no smaller than the old expires_at whenever the duration is no
\* shorter than the one the lock was last given (expires_at - locked_at).
C6_Extension ==
  [][/\ \A s \in Principals, r \in record_locks :
          (Selects(s, r.entity) /\ r.locked_by = s)
            => call'[s] # Idle /\ call'[s].pc = "extend"
     /\ \A s \in Principals, r \in record_locks :
          (Writes(s, "extend") /\ r \in HeldLive(s))
            => /\ Flag(last'.result, "extended")
               /\ DurationOf(s) \in Durations
               /\ \E q \in RowsOf(record_locks', r.entity) :
                    /\ q.id = r.id
                    /\ q.locked_by = s
                    /\ q.expires_at = last'.result.expires_at
                    /\ (DurationOf(s) >= r.expires_at - r.locked_at
                          => q.expires_at >= r.expires_at)]_vars

\* C6's case: the holder has just extended a lock with a duration at least
\* as long as the one before, at a later time.
C6_Witness ==
  /\ last.op = "acquire"
  /\ Flag(last.result, "extended")
  /\ \E r \in record_locks :
       /\ r.id = last.result.lock_id
       /\ r.locked_by = last.session
       /\ r.locked_at > 0
       /\ r.expires_at > r.locked_at

\* --------------------------------------------------------------------
\* C7. release by a principal that does not hold the lock returns false
\* and changes nothing; release by the holder deletes the row and returns
\* true; a release that follows the same principal's release returns false
\* and changes nothing; the result is always a boolean.
C7_ReleaseOwnerScoped ==
  [][\A s \in Principals, e \in Entities :
       Returned("release", s, e)
         => /\ last'.result \in BOOLEAN
            /\ IF \E r \in RowsOf(record_locks, e) : r.locked_by = s
                 THEN /\ last'.result = TRUE
                      /\ RowsOf(record_locks', e) = {}
                      /\ record_locks' \subseteq record_locks
                 ELSE /\ last'.result = FALSE
                      /\ record_locks' = record_locks
            /\ (last.op = "release" /\ last.session = s /\ last.entity = e)
                 => (last'.result = FALSE /\ record_locks' = record_locks)]_vars

\* C7's case: a principal other than the holder has just been refused a
\* release of a lock that is still there.
C7_Witness ==
  /\ last.op = "release"
  /\ last.result = FALSE
  /\ \E r \in RowsOf(record_locks, last.entity) : r.locked_by # last.session

\* --------------------------------------------------------------------
\* C8. check on an identity whose row is expired and not yet swept returns
\* {locked: false}, as it does when there is no row, for every caller; and
\* check leaves the table as it was.
C8_ExpiredIsAbsent ==
  [][\A s \in Sessions, e \in Entities :
       Returned("check", s, e)
         => /\ record_locks' = record_locks
            /\ (\A r \in RowsOf(record_locks, e) : r.expires_at < now)
                 => last'.result = [locked |-> FALSE]]_vars

\* C8's case: check has just answered "not locked" for an identity whose
\* expired row is still in the table.
C8_Witness ==
  /\ last.op = "check"
  /\ last.result = [locked |-> FALSE]
  /\ \E r \in RowsOf(record_locks, last.entity) : r.expires_at < now

\* --------------------------------------------------------------------
\* C9. An acquire that finds a live lock (expires_at >= now) held by
\* another principal changes nothing and returns success = false with the
\* row's holder id, holder name, locked_at and expires_at.
C9_DeniedFrame ==
  [][\A s \in Principals, r \in record_locks :
       (Selects(s, r.entity) /\ r.locked_by # s /\ r.expires_at >= now)
         => /\ record_locks' = record_locks
            /\ call' = call
            /\ Returned("acquire", s, r.entity)
            /\ last'.result.success = FALSE
            /\ last'.result.locked_by = r.locked_by
            /\ last'.result.locked_by_name = r.locked_by_name
            /\ last'.result.locked_at = r.locked_at
            /\ last'.result.expires_at = r.expires_at]_vars

\* C9's case: a principal has just been denied a lock that expires at this
\* very instant and is held by someone else.
C9_Witness ==
  /\ last.op = "acquire"
  /\ IsDenied(last.result)
  /\ \E r \in RowsOf(record_locks, last.entity) :
       r.locked_by # last.session /\ r.expires_at = now

\* --------------------------------------------------------------------
\* C10 as stated: an acquire by B issued after the expires_at of A's lock
\* returns took_over, B becomes the holder and check gives A no is_mine,
\* whether A's row is still there or the sweep has just deleted it.
TakeOverPath(s) == call'[s] # Idle /\ call'[s].pc = "take_over"

C10_TookOverEvenIfSwept ==
  [][\A s \in Principals, e \in Entities :
       Selects(s, e)
         => /\ \A r \in RowsOf(record_locks, e) :
                 (r.locked_by # s /\ r.expires_at < now) => TakeOverPath(s)
            /\ (/\ last.op = "cleanup"
                /\ \E r \in last.deleted :
                     r.entity = e /\ r.locked_by # s /\ r.expires_at > r.locked_at)
                 => TakeOverPath(s)]_vars

\* C10 as amended: an acquire by B issued after the expires_at of A's lock
\* that still finds A's row returns took_over, and the row, if it is still
\* there, is then held by B; once the sweep has deleted the row, the
\* acquire finds no lock and takes the create branch instead; and check
\* reports is_mine = true to nobody but the row's holder.
C10_ExpiredLockIsTaken ==
  [][/\ \A s \in Principals, e \in Entities :
          Selects(s, e)
            => /\ \A r \in RowsOf(record_locks, e) :
                    (r.locked_by # s /\ r.expires_at < now) => TakeOverPath(s)
               /\ RowsOf(record_locks, e) = {}
                    => call'[s] # Idle /\ call'[s].pc = "create"
     /\ \A s \in Principals :
          Writes(s, "take_over")
            => /\ Flag(last'.result, "took_over")
               /\ last'.result.success
               /\ \A q \in record_locks' :
                    q.id = call[s].v_existing_lock.id => q.locked_by = s
     /\ \A s \in Sessions, e \in Entities :
          (Returned("check", s, e) /\ Flag(last'.result, "is_mine"))
            => \E q \in RowsOf(record_locks', e) : q.locked_by = s]_vars

\* C10's case: B has just taken over the expired lock of A and now holds
\* the row.
C10_Witness ==
  /\ last.op = "acquire"
  /\ Flag(last.result, "took_over")
  /\ last.v_existing_lock.locked_by # last.session
  /\ \E r \in record_locks :
       /\ r.id = last.result.lock_id
       /\ r.locked_by = last.session
       /\ ~Flag(check_lock(record_locks, last.v_existing_lock.locked_by,
                           r.entity, now), "is_mine")

\* ====================================================================
\* Properties of the editing client
\* ====================================================================
\* The step just taken is the return of the page's acquireLock call that
\* the code named by from had made, to the mounted page.
AcquireReturns(from) ==
  /\ mounted
  /\ pending.acquire = from
  /\ pending'.acquire = "none"
  /\ out'.op = from

\* A failure that is no denial: the RPC failed, or the function raised.
IsInfrastructureFailure(result) ==
  /\ result.success = FALSE
  /\ ~IsDenied(result)

\* The live lock row of the entity is Me's.
HeldByMe ==
  \E r \in RowsOf(record_locks, entityId) : r.locked_by = Me /\ r.expires_at > now

\* --------------------------------------------------------------------
\* C11. While the page is in edit mode and holds the lock, it calls
\* acquireLock at least once every extendInterval, however often it
\* renders: the time in edit mode with the lock since the last call never
\* exceeds extendInterval.
C11_ExtendsEveryInterval ==
  (mounted /\ isEditing /\ isLockedByMe(lockInfo)) => sinceAcquire <= extendInterval

\* --------------------------------------------------------------------
\* C12. When the extension call of a page in edit mode returns denied,
\* the page leaves edit mode, drops the edit data, has no extension
\* interval any more and alerts the user.
C12_DeniedExtensionEndsEdit ==
  [][(AcquireReturns("extend") /\ isEditing /\ IsDenied(out'.result))
       => /\ ~isEditing'
          /\ editData' = NULL
          /\ extendIntervalRef' = {}
          /\ ~isLockedByMe(lockInfo')
          /\ out'.alert]_vars

C12_Witness ==
  /\ out.op = "extend"
  /\ IsDenied(out.result)
  /\ out.result.locked_by \in Rivals
  /\ out.alert
  /\ ~isEditing
  /\ editData = NULL

\* --------------------------------------------------------------------
\* C13. When the extension call of a page in edit mode fails for an
\* infrastructure reason, the page stays in edit mode, keeps the edit data
\* and does not take the onLockLost path.
C13_FailedExtensionKeepsEdit ==
  [][(AcquireReturns("extend") /\ isEditing /\ IsInfrastructureFailure(out'.result))
       => /\ isEditing'
          /\ editData' = editData
          /\ ~out'.alert]_vars

\* --------------------------------------------------------------------
\* C14. Only an acquire that was denied by the live lock of another
\* principal puts the page in the locked-by-other state: after an acquire
\* that failed for an infrastructure reason lockInfo does not say locked
\* and not mine.
C14_FailureIsNotDenial ==
  [][(AcquireReturns("startEdit") /\ IsInfrastructureFailure(out'.result))
       => ~isLockedByOther(lockInfo')]_vars

\* --------------------------------------------------------------------
\* C17. The page enters edit mode only in the step in which startEdit
\* returns true after a successful acquire; when the acquire is denied,
\* startEdit returns false, isEditing is left as it was, and lockInfo has
\* the holder's name and lock time of the denial.
C17_EditingOnlyAfterAcquire ==
  [][/\ (~isEditing /\ isEditing')
          => (AcquireReturns("startEdit") /\ out'.result.success /\ out'.ret)
     /\ (AcquireReturns("startEdit") /\ IsDenied(out'.result))
          => /\ ~out'.ret
             /\ isEditing' = isEditing
             /\ isLockedByOther(lockInfo')
             /\ lockInfo'.locked_by_name = out'.result.locked_by_name
             /\ lockInfo'.locked_at = out'.result.locked_at]_vars

C17_Witness ==
  /\ out.op = "startEdit"
  /\ IsDenied(out.result)
  /\ ~out.ret
  /\ ~isEditing
  /\ lockInfo.locked_by_name = full_name("B")

\* --------------------------------------------------------------------
\* C18. saveEdit in edit mode, when onSave has settled.  After a success
\* the page leaves edit mode, calls release, and saveEdit returns true when
\* the release has settled.  After a failure the page stays as it was with
\* editData unchanged, no release is called, the lock row is untouched, and
\* saveEdit returns false.
C18_SaveOutcome ==
  [][/\ (pending.save /\ ~pending'.save /\ out'.saved)
          => /\ pending'.release # "none"
             /\ out'.release
             /\ mounted => (~isEditing' /\ editData' = NULL)
     /\ (pending.release = "save" /\ pending'.release = "none")
          => (out'.op = "saveEdit" /\ out'.ret)
     /\ (pending.save /\ ~pending'.save /\ ~out'.saved)
          => /\ isEditing' = isEditing
             /\ editData' = editData
             /\ pending'.release = pending.release
             /\ ~out'.release
             /\ record_locks' = record_locks
             /\ ~out'.ret]_vars

C18_Witness ==
  /\ out.op = "saveEdit"
  /\ Has(out, "saved")
  /\ ~out.saved
  /\ ~out.ret
  /\ mounted
  /\ isEditing
  /\ editData = "typed"
  /\ HeldByMe

\* --------------------------------------------------------------------
\* C19. cancelEdit from edit mode calls release, drops the edit data and
\* leaves edit mode; the outcome of the release call changes neither.
C19_CancelLeavesEdit ==
  [][/\ (out'.op = "cancelEdit" /\ out'.wasEditing)
          => /\ out'.release
             /\ pending'.release # "none"
             /\ ~isEditing'
             /\ editData' = NULL
     /\ (pending.release # "none" /\ pending'.release = "none")
          => /\ isEditing' = isEditing
             /\ editData' = editData]_vars

C19_Witness ==
  /\ out.op = "cancelEdit"
  /\ out.wasEditing
  /\ pending.release = "cancel"
  /\ ~isEditing
  /\ editData = NULL
  /\ HeldByMe

\* --------------------------------------------------------------------
\* C20. When the hook is torn down while the live lock of the entity is
\* held by this page's principal, the teardown calls releaseLock.
C20_TeardownReleases ==
  [][(mounted /\ ~mounted' /\ HeldByMe) => out'.release]_vars

\* ====================================================================
\* Properties of the version column
\* ====================================================================
\* The step just taken is an update statement of an editor's page.
Updates(op) == vout'.op = op

\* --------------------------------------------------------------------
\* C15. Every successful update raises the stored version by exactly 1,
\* whatever the payload sets, the version itself included; the version
\* never decreases; an updateWithVersionCheck whose expectedVersion differs
\* from the stored version reports a conflict and changes nothing of the
\* row.
C15_VersionCounts ==
  [][/\ companies'.version >= companies.version
     /\ ((Updates("updateWithVersionCheck") \/ Updates("useUpdateCompany"))
           /\ ~vout'.conflict)
          => companies'.version = companies.version + 1
     /\ companies' # companies => companies'.version = companies.version + 1
     /\ (Updates("updateWithVersionCheck") /\ vout'.expectedVersion # companies.version)
          => (vout'.conflict /\ companies' = companies)]_vars

C15_Witness ==
  /\ vout.op = "updateWithVersionCheck"
  /\ vout.conflict
  /\ Has(vout.updates, "version")
  /\ vout.expectedVersion = 1
  /\ companies.version = MaxVersion

\* --------------------------------------------------------------------
\* C16. Every update an editor's page makes carries the version the page
\* last fetched: an update from a page whose fetched version is not the
\* stored version is rejected with a conflict and leaves the row as the
\* other editor wrote it.
C16_StaleSaveRejected ==
  [][\A c \in Editors :
       (Updates("useUpdateCompany") /\ vout'.editor = c
          /\ record[c].version # companies.version)
         => (vout'.conflict /\ companies' = companies)]_vars


\* ====================================================================
\* Properties of the lock server, continued
\* ====================================================================
\* What the caller of acquire learns from the first statement of
\* acquire_lock run on the table locks at NOW() = t.
AcquireOutcome(locks, s, e, t) ==
  IF auth_uid(s) = NULL THEN "unauthenticated"
  ELSE IF AcquireBranch(auth_uid(s), SelectInto(RowsOf(locks, e)), t) = "denied"
    THEN "denied"
  ELSE "success"

\* --------------------------------------------------------------------
\* C25. The sweep deletes exactly the rows with expires_at < now, so never
\* a live lock, and for every session and identity an acquire is denied or
\* not, and a check answers, the same on the table after the sweep as on
\* the table before it.
C25_SweepIsUnobservable ==
  [][last'.op = "cleanup"
       => /\ record_locks' \subseteq record_locks
          /\ record_locks \ record_locks' = {r \in record_locks : r.expires_at < now}
          /\ \A s \in Sessions, e \in Entities :
               /\ AcquireOutcome(record_locks', s, e, now)
                    = AcquireOutcome(record_locks, s, e, now)
               /\ check_lock(record_locks', auth_uid(s), e, now)
                    = check_lock(record_locks, auth_uid(s), e, now)]_vars

\* The sweep has just deleted an expired lock.
C25_Witness ==
  /\ last.op = "cleanup"
  /\ \E r \in last.deleted : r.expires_at < now /\ r \notin record_locks

\* --------------------------------------------------------------------
\* C26. Every lock row has expires_at strictly greater than locked_at,
\* whatever duration the acquire that wrote it was given.
C26_ExpiresAfterLockedAt ==
  \A r \in record_locks : r.expires_at > r.locked_at

\* --------------------------------------------------------------------
\* C27. When an acquire returns success to s, the lock row the identity
\* has at the moment the call commits is held by s, also when the extension of
\* s's own expired lock is interleaved with a take-over by another
\* principal.
C27_SuccessMeansHolder ==
  [][\A s \in Principals :
       (/\ call[s] # Idle
        /\ call'[s] = Idle
        /\ last'.op = "acquire"
        /\ last'.session = s
        /\ Flag(last'.result, "success"))
         => \A r \in RowsOf(record_locks', call[s].entity) : r.locked_by = s]_vars

\* --------------------------------------------------------------------
\* C30. At every instant check and acquire agree on expiry: on a lock of
\* positive lifetime, when check answers locked = false an acquire by any
\* principal succeeds, and when an acquire by a principal would be denied
\* check answers locked = true.
C30_CheckAgreesWithAcquire ==
  \A s \in Principals, e \in Entities :
    LET checked == check_lock(record_locks, auth_uid(s), e, now)
        outcome == AcquireOutcome(record_locks, s, e, now)
    IN (\A r \in RowsOf(record_locks, e) : r.expires_at > r.locked_at)
         => /\ ~checked.locked => outcome = "success"
            /\ outcome = "denied" => checked.locked


\* ====================================================================
\* Properties of the editing client, continued
\* ====================================================================
\* C28. In every state of the mounted page isEditing = true implies
\* isLockedByMe = true; a check response that reports the lock absent does
\* not leave the page in edit mode without the lock.
C28_EditingImpliesLockedByMe ==
  (mounted /\ isEditing) => isLockedByMe(lockInfo)

\* --------------------------------------------------------------------
\* C29. Once the page has left edit mode through cancel or a successful
\* save and the release call it made has returned, also when that call
\* failed, the page issues no further extension acquire.
C29_NoExtensionAfterLeaving ==
  [][(/\ mounted
      /\ pending.acquire = "none"
      /\ pending'.acquire = "extend"
      /\ pending.release = "none")
       => leftBy = "none"]_vars


\* ====================================================================
\* Properties of presence
\* ====================================================================
\* C21. The status the page reports is editing as long as the page is in
\* edit mode or saving, and is online or idle, never editing, whenever the
\* page is viewing, whichever way it left edit mode: save, cancel or a
\* lost lock.
C21_StatusFollowsEditMode ==
  mounted => ((isEditing \/ pending.save) <=> statusRef = "editing")

\* --------------------------------------------------------------------
\* C22. When the page is not in edit mode, does not report editing, and
\* has had no user input for longer than idleWindow, counted from the
\* latest input event or from the moment it left edit mode, its status is
\* idle.
C22_IdleAfterWindow ==
  (/\ mounted
   /\ ~isEditing
   /\ ~pending.save
   /\ statusRef # "editing"
   /\ quiet > idleWindow)
    => statusRef = "idle"

\* --------------------------------------------------------------------
\* C23. get_viewers called by P for an entity returns exactly the rows of
\* that entity that other principals wrote less than FreshWindow ago: never
\* P's own row, and never a row older than the window, also while the
\* sweep has not removed it.
C23_ViewersAreFreshOthers ==
  last.op = "get_viewers"
    => LET P == auth_uid(last.session)
           current == {r \in user_presence : /\ r.entity = last.entity
                                             /\ r.user_id # P
                                             /\ now - r.last_seen < FreshWindow}
       IN /\ last.result = {Viewer(r) : r \in current}
          /\ \A v \in last.result : v.user_id # P
          /\ \A r \in user_presence :
               now - r.last_seen >= FreshWindow => Viewer(r) \notin last.result

\* get_viewers has just answered P while the table holds P's own fresh row
\* for the entity and another principal's row for it that is older than
\* the window.
C23_Witness ==
  /\ last.op = "get_viewers"
  /\ \E own \in user_presence :
       /\ own.user_id = last.session
       /\ own.entity = last.entity
       /\ now - own.last_seen < FreshWindow
  /\ \E r \in user_presence :
       /\ r.user_id # last.session
       /\ r.entity = last.entity
       /\ now - r.last_seen >= FreshWindow
  /\ last.result = {}

\* --------------------------------------------------------------------
\* C24. After every call of update_presence and cleanup_stale_presence the
\* table holds at most one row per principal; an update by P makes P's row
\* carry the page, entity and status given, P's name and last_seen = now,
\* and leaves the rows of the others as they were; the last_seen of a
\* principal's row never decreases.
C24_OneRowPerPrincipal ==
  [][/\ \A p \in Principals :
          Cardinality({r \in user_presence' : r.user_id = p}) <= 1
     /\ \A r \in user_presence, q \in user_presence' :
          r.user_id = q.user_id => q.last_seen >= r.last_seen
     /\ (last'.op = "update_presence" /\ last'.result)
          => LET P == last'.session
             IN /\ {r \in user_presence' : r.user_id = P}
                     = {[user_id |-> P,
                         user_name |-> full_name(P),
                         current_page |-> last'.args.current_page,
                         entity |-> last'.args.entity,
                         status |-> last'.args.status,
                         last_seen |-> now]}
                /\ {r \in user_presence' : r.user_id # P}
                     = {r \in user_presence : r.user_id # P}]_vars

\* An update by P has just replaced the row P wrote earlier, next to an
\* older row of another principal.
C24_Witness ==
  /\ last.op = "update_presence"
  /\ last.result
  /\ now > 0
  /\ \E r \in user_presence : r.user_id = last.session /\ r.last_seen = now
  /\ \E r \in user_presence : r.user_id # last.session /\ r.last_seen < now

====
